---------------------------- MODULE Spec2Model ----------------------------
(***************************************************************************)
(* A model of the hangar-api request/response mapping layer                *)
(* (src/src/api.rs, src/src/object.rs).                                    *)
(*                                                                         *)
(* The crate is a set of pure mappings: request structs to a URL and a     *)
(* set of serialized entries, and JSON payloads to typed values.  A state  *)
(* of the model is one call: `call` holds the operation and its input,     *)
(* `ret` what the operation returned, `got` the result of ByPlatform::get *)
(* and `iter` the state of a ByPlatform iterator.  Identifiers are         *)
(* sequences of one-character strings so that the serde renaming rules     *)
(* are computed, not copied.                                               *)
(***************************************************************************)
EXTENDS Integers, Sequences, FiniteSets, TLC

VARIABLES call, ret, got, iter

vars == <<call, ret, got, iter>>

(***************************************************************************)
(* Bounds of the model.                                                    *)
(***************************************************************************)
\* longest result / flags / tags array drawn for a response payload
MaxItems == 2
\* number of times iter() is called on one ByPlatform value
MaxIterCalls == 2

(***************************************************************************)
(* Characters and the serde renaming rules.                                *)
(***************************************************************************)
Uppers ==
    <<"A","B","C","D","E","F","G","H","I","J","K","L","M",
      "N","O","P","Q","R","S","T","U","V","W","X","Y","Z">>

Lowers ==
    <<"a","b","c","d","e","f","g","h","i","j","k","l","m",
      "n","o","p","q","r","s","t","u","v","w","x","y","z">>

IsUpper(c) == \E i \in DOMAIN Uppers : Uppers[i] = c

IsLower(c) == \E i \in DOMAIN Lowers : Lowers[i] = c

ToLower(c) ==
    IF IsUpper(c) THEN Lowers[CHOOSE i \in DOMAIN Uppers : Uppers[i] = c] ELSE c

ToUpper(c) ==
    IF IsLower(c) THEN Uppers[CHOOSE i \in DOMAIN Lowers : Lowers[i] = c] ELSE c

RECURSIVE Join(_)
Join(s) == IF s = <<>> THEN "" ELSE Head(s) \o Join(Tail(s))

RECURSIVE Flatten(_)
Flatten(ss) == IF ss = <<>> THEN <<>> ELSE Head(ss) \o Flatten(Tail(ss))

\* rename_all = "snake_case" on an enum: an underscore before every upper-case
\* letter but the first, everything lower-cased
SnakeCaseVariant(v) ==
    Flatten([i \in DOMAIN v |->
        IF i > 1 /\ IsUpper(v[i]) THEN <<"_", ToLower(v[i])>> ELSE <<ToLower(v[i])>>])

\* rename_all = "SCREAMING_SNAKE_CASE" on an enum
ScreamingSnakeCaseVariant(v) ==
    LET s == SnakeCaseVariant(v) IN [i \in DOMAIN s |-> ToUpper(s[i])]

\* rename_all = "camelCase" on an enum: the first letter lower-cased
CamelCaseVariant(v) ==
    [i \in DOMAIN v |-> IF i = 1 THEN ToLower(v[i]) ELSE v[i]]

\* rename_all = "camelCase" on a struct: underscores dropped, the letter after
\* each one upper-cased, the first letter kept lower-case
CamelCaseField(f) ==
    Flatten([i \in DOMAIN f |->
        IF f[i] = "_" THEN <<>>
        ELSE IF i > 1 /\ f[i - 1] = "_" THEN <<ToUpper(f[i])>>
        ELSE IF i = 1 THEN <<ToLower(f[i])>>
        ELSE <<f[i]>>])

\* a struct without rename_all keeps its field names
PlainField(f) == f

(***************************************************************************)
(* The enums of object.rs, by their Rust variant names.                    *)
(***************************************************************************)
ProjectsSortVariants ==
    << <<"V","i","e","w","s">>,
       <<"D","o","w","n","l","o","a","d","s">>,
       <<"N","e","w","e","s","t">>,
       <<"S","t","a","r","s">>,
       <<"U","p","d","a","t","e","d">>,
       <<"R","e","c","e","n","t","D","o","w","n","l","o","a","d","s">>,
       <<"R","e","c","e","n","t","V","i","e","w","s">>,
       <<"S","l","u","g">> >>

\* the #[serde(rename = ...)] attribute of each variant, "" where there is none
ProjectsSortRename ==
    <<"-views", "-downloads", "-newest", "-stars", "-updated",
      "-recent-downloads", "-recent-views", "">>

CategoryVariants ==
    << <<"A","d","m","i","n","T","o","o","l","s">>,
       <<"C","h","a","t">>,
       <<"D","e","v","T","o","o","l","s">>,
       <<"E","c","o","n","o","m","y">>,
       <<"G","a","m","e","p","l","a","y">>,
       <<"G","a","m","e","s">>,
       <<"P","r","o","t","e","c","t","i","o","n">>,
       <<"R","o","l","e","P","l","a","y","i","n","g">>,
       <<"W","o","r","l","d","M","a","n","a","g","e","m","e","n","t">>,
       <<"M","i","s","c">>,
       <<"U","n","d","e","f","i","n","e","d">> >>

PlatformVariants ==
    << <<"P","a","p","e","r">>,
       <<"W","a","t","e","r","f","a","l","l">>,
       <<"V","e","l","o","c","i","t","y">> >>

VisibilityVariants ==
    << <<"P","u","b","l","i","c">>,
       <<"N","e","w">>,
       <<"N","e","e","d","s","C","h","a","n","g","e","s">>,
       <<"N","e","e","d","s","A","p","p","r","o","v","a","l">>,
       <<"S","o","f","t","D","e","l","e","t","e">> >>

ProjectTagsVariants ==
    << <<"A","d","d","o","n">>,
       <<"L","i","b","r","a","r","y">>,
       <<"S","u","p","p","o","r","t","s","F","o","l","i","a">> >>

ReviewStateVariants ==
    << <<"U","n","r","e","v","i","e","w","e","d">>,
       <<"R","e","v","i","e","w","e","d">>,
       <<"U","n","d","e","r","R","e","v","i","e","w">>,
       <<"P","a","r","t","i","a","l","l","y","R","e","v","i","e","w","e","d">> >>

ChannelFlagsVariants ==
    << <<"F","r","o","z","e","n">>,
       <<"U","n","s","t","a","b","l","e">>,
       <<"P","i","n","n","e","d">>,
       <<"S","e","n","d","s","N","o","t","i","f","i","c","a","t","i","o","n","s">>,
       <<"H","i","d","e","B","y","D","e","f","a","u","l","t">> >>

PinnedStatusVariants ==
    << <<"N","o","n","e">>,
       <<"V","e","r","s","i","o","n">>,
       <<"C","h","a","n","n","e","l">> >>

\* a value of an enum is the Rust name of its variant
Values(variants) == {Join(variants[i]) : i \in DOMAIN variants}

\* ProjectsSortWire with the rename attributes ignored: rename_all alone
ProjectsSortWireRenameAll ==
    [i \in DOMAIN ProjectsSortVariants |->
        Join(SnakeCaseVariant(ProjectsSortVariants[i]))]

\* the name each variant has on the wire
ProjectsSortWire ==
    [i \in DOMAIN ProjectsSortVariants |->
        IF ProjectsSortRename[i] # "" THEN ProjectsSortRename[i]
        ELSE Join(SnakeCaseVariant(ProjectsSortVariants[i]))]

CategoryWire ==
    [i \in DOMAIN CategoryVariants |-> Join(SnakeCaseVariant(CategoryVariants[i]))]

PlatformWire ==
    [i \in DOMAIN PlatformVariants |->
        Join(ScreamingSnakeCaseVariant(PlatformVariants[i]))]

VisibilityWire ==
    [i \in DOMAIN VisibilityVariants |->
        Join(CamelCaseVariant(VisibilityVariants[i]))]

ProjectTagsWire ==
    [i \in DOMAIN ProjectTagsVariants |->
        Join(ScreamingSnakeCaseVariant(ProjectTagsVariants[i]))]

ReviewStateWire ==
    [i \in DOMAIN ReviewStateVariants |->
        Join(CamelCaseVariant(ReviewStateVariants[i]))]

ChannelFlagsWire ==
    [i \in DOMAIN ChannelFlagsVariants |->
        Join(ScreamingSnakeCaseVariant(ChannelFlagsVariants[i]))]

PinnedStatusWire ==
    [i \in DOMAIN PinnedStatusVariants |->
        Join(ScreamingSnakeCaseVariant(PinnedStatusVariants[i]))]

(***************************************************************************)
(* Results and JSON values.                                                *)
(***************************************************************************)
Ok(v) == [ok |-> TRUE, val |-> v]

Err(e) == [ok |-> FALSE, err |-> e]

None == [some |-> FALSE]

Some(v) == [some |-> TRUE, v |-> v]

\* JSON values: null, strings, integers, arrays and objects.  An object is
\* a function from the keys it carries to their values.
JNull == [t |-> "null"]

JStr(s) == [t |-> "str", s |-> s]

JInt(n) == [t |-> "int", n |-> n]

JArr(a) == [t |-> "arr", a |-> a]

JObj(o) == [t |-> "obj", o |-> o]

\* all objects that carry every key in `required` and any of the keys in
\* `optional`, each key's value drawn from vals[key]
RECURSIVE Objects(_, _, _)
Objects(required, optional, vals) ==
    IF required \cup optional = {} THEN {<<>>}
    ELSE LET k == CHOOSE x \in required \cup optional : TRUE
             rest == Objects(required \ {k}, optional \ {k}, vals)
         IN  {(k :> v) @@ o : v \in vals[k], o \in rest}
             \cup (IF k \in optional THEN rest ELSE {})

Has(o, k) == k \in DOMAIN o

\* DecodeEnum with a catch-all: an unrecognized name becomes the last variant
DecodeEnumCatchAll(variants, wire, j) ==
    IF j.t # "str" THEN Err("invalid type")
    ELSE IF \E i \in DOMAIN variants : wire[i] = j.s
    THEN Ok(Join(variants[CHOOSE i \in DOMAIN variants : wire[i] = j.s]))
    ELSE Ok(Join(variants[Len(variants)]))

\* the deserializer of a fieldless enum: the variant whose wire name this is
DecodeEnum(variants, wire, j) ==
    IF j.t = "str" /\ \E i \in DOMAIN variants : wire[i] = j.s
    THEN Ok(Join(variants[CHOOSE i \in DOMAIN variants : wire[i] = j.s]))
    ELSE Err("unknown variant")

SerializeEnum(variants, wire, v) ==
    wire[CHOOSE i \in DOMAIN variants : Join(variants[i]) = v]

(***************************************************************************)
(* Field names, as written in the structs.                                 *)
(***************************************************************************)
f_prioritize_exact_match ==
    <<"p","r","i","o","r","i","t","i","z","e","_","e","x","a","c","t","_","m","a","t","c","h">>

f_sort ==
    <<"s","o","r","t">>

f_category ==
    <<"c","a","t","e","g","o","r","y">>

f_platform ==
    <<"p","l","a","t","f","o","r","m">>

f_owner ==
    <<"o","w","n","e","r">>

f_query ==
    <<"q","u","e","r","y">>

f_license ==
    <<"l","i","c","e","n","s","e">>

f_version ==
    <<"v","e","r","s","i","o","n">>

f_tag ==
    <<"t","a","g">>

f_member ==
    <<"m","e","m","b","e","r">>

f_include_hidden_channels ==
    <<"i","n","c","l","u","d","e","_","h","i","d","d","e","n","_","c","h","a","n","n","e","l","s">>

f_channel ==
    <<"c","h","a","n","n","e","l">>

f_platform_version ==
    <<"p","l","a","t","f","o","r","m","_","v","e","r","s","i","o","n">>

f_path ==
    <<"p","a","t","h">>

f_name ==
    <<"n","a","m","e">>

f_limit ==
    <<"l","i","m","i","t">>

f_offset ==
    <<"o","f","f","s","e","t">>

f_file_info ==
    <<"f","i","l","e","_","i","n","f","o">>

f_download_url ==
    <<"d","o","w","n","l","o","a","d","_","u","r","l">>

f_external_url ==
    <<"e","x","t","e","r","n","a","l","_","u","r","l">>

f_size_bytes ==
    <<"s","i","z","e","_","b","y","t","e","s">>

f_sha256_hash ==
    <<"s","h","a","2","5","6","_","h","a","s","h">>

f_visibility ==
    <<"v","i","s","i","b","i","l","i","t","y">>

f_review_state ==
    <<"r","e","v","i","e","w","_","s","t","a","t","e">>

f_pinned_status ==
    <<"p","i","n","n","e","d","_","s","t","a","t","u","s">>

f_flags ==
    <<"f","l","a","g","s">>

f_tags ==
    <<"t","a","g","s">>

f_settings ==
    <<"s","e","t","t","i","n","g","s">>

f_plugin_dependencies ==
    <<"p","l","u","g","i","n","_","d","e","p","e","n","d","e","n","c","i","e","s">>

f_result ==
    <<"r","e","s","u","l","t">>

f_required ==
    <<"r","e","q","u","i","r","e","d">>

\* the key a field has in serialized output or in a payload
Key(f) == Join(f)

(***************************************************************************)
(* object.rs: Pagination.                                                  *)
(***************************************************************************)
\* impl Default for Pagination
PaginationDefault == [limit |-> 25, offset |-> 0]

\* PaginationFrom with the tuple's components taken in the other order
PaginationFromSwapped(value) == [limit |-> value[2], offset |-> value[1]]

\* PaginationFrom raising negative components to zero
PaginationFromClamped(value) ==
    [limit |-> IF value[1] < 0 THEN 0 ELSE value[1],
     offset |-> IF value[2] < 0 THEN 0 ELSE value[2]]

\* impl From<(i64, i64)> for Pagination
PaginationFrom(value) == [limit |-> value[1], offset |-> value[2]]

\* a struct literal: both fields are pub
PaginationLiteral(limit, offset) == [limit |-> limit, offset |-> offset]

(***************************************************************************)
(* Values handed to a serializer (the serde data model).                   *)
(***************************************************************************)
SNone == [t |-> "none"]

SBool(b) == [t |-> "bool", b |-> b]

SI64(n) == [t |-> "i64", n |-> n]

SStr(s) == [t |-> "str", s |-> s]

\* a unit variant is serialized as its wire name
SVariant(name) == [t |-> "variant", s |-> name]

Entry(k, v) == [key |-> k, value |-> v]

\* Serialize for Option<T>: serialize_none for None and, for Some, `inner`,
\* the serialized inner value.
\* No field of the request structs carries skip_serializing_if.
SerializeOption(opt, inner) == IF opt.some THEN inner ELSE SNone

\* #[derive(Serialize)] for Pagination: a struct of two i64 fields
SerializePagination(p) ==
    << Entry(Key(PlainField(f_limit)), SI64(p.limit)),
       Entry(Key(PlainField(f_offset)), SI64(p.offset)) >>

\* #[derive(Serialize)] for ProjectsSort
SerializeProjectsSort(v) ==
    SVariant(SerializeEnum(ProjectsSortVariants, ProjectsSortWire, v))

SerializeCategory(v) == SVariant(SerializeEnum(CategoryVariants, CategoryWire, v))

SerializePlatform(v) == SVariant(SerializeEnum(PlatformVariants, PlatformWire, v))

(***************************************************************************)
(* api.rs: the five requests.                                              *)
(***************************************************************************)
BASE_API_URL == "https://hangar.papermc.io/api/v1"

\* #[derive(Serialize)] for ProjectsRequest: the fields in declaration order,
\* pagination flattened into its own two entries
SerializeProjectsRequest(r) ==
    << Entry(Key(CamelCaseField(f_prioritize_exact_match)),
             SerializeOption(r.prioritize_exact_match,
                             SBool(r.prioritize_exact_match.v))) >>
    \o SerializePagination(r.pagination)
    \o << Entry(Key(CamelCaseField(f_sort)),
                SerializeOption(r.sort, SerializeProjectsSort(r.sort.v))),
          Entry(Key(CamelCaseField(f_category)),
                SerializeOption(r.category, SerializeCategory(r.category.v))),
          Entry(Key(CamelCaseField(f_platform)),
                SerializeOption(r.platform, SerializePlatform(r.platform.v))),
          Entry(Key(CamelCaseField(f_owner)), SerializeOption(r.owner, SStr(r.owner.v))),
          Entry(Key(CamelCaseField(f_query)), SerializeOption(r.query, SStr(r.query.v))),
          Entry(Key(CamelCaseField(f_license)),
                SerializeOption(r.license, SStr(r.license.v))),
          Entry(Key(CamelCaseField(f_version)),
                SerializeOption(r.version, SStr(r.version.v))),
          Entry(Key(CamelCaseField(f_tag)), SerializeOption(r.tag, SStr(r.tag.v))),
          Entry(Key(CamelCaseField(f_member)),
                SerializeOption(r.member, SStr(r.member.v))) >>

ProjectsRequestUrl(r) == BASE_API_URL \o "/projects"

\* ProjectsRequest::builder(): pagination is required and converted with
\* into(), every other field is what the caller set or its default, None
BuildProjectsRequest(args) ==
    [prioritize_exact_match |-> args.prioritize_exact_match,
     pagination |-> PaginationFrom(args.pagination),
     sort |-> args.sort,
     category |-> args.category,
     platform |-> args.platform,
     owner |-> args.owner,
     query |-> args.query,
     license |-> args.license,
     version |-> args.version,
     tag |-> args.tag,
     member |-> args.member]

\* #[derive(Serialize)] for ProjectRequest: slug is #[serde(skip)]
SerializeProjectRequest(r) == << >>

ProjectRequestUrl(r) == BASE_API_URL \o "/projects/" \o r.slug

\* #[derive(Serialize)] for PageRequest: slug is #[serde(skip)]
SerializePageRequest(r) == << Entry(Key(PlainField(f_path)), SStr(r.path)) >>

\* PageRequestUrl with the page path interpolated after the slug
PageRequestUrlWithPath(r) == BASE_API_URL \o "/pages/page/" \o r.slug \o "/" \o r.path

PageRequestUrl(r) == BASE_API_URL \o "/pages/page/" \o r.slug

\* #[derive(Serialize)] for VersionsRequest: slug is #[serde(skip)],
\* pagination flattened
SerializeVersionsRequest(r) ==
    SerializePagination(r.pagination)
    \o << Entry(Key(CamelCaseField(f_include_hidden_channels)),
                SerializeOption(r.include_hidden_channels,
                                SBool(r.include_hidden_channels.v))),
          Entry(Key(CamelCaseField(f_channel)),
                SerializeOption(r.channel, SStr(r.channel.v))),
          Entry(Key(CamelCaseField(f_platform)),
                SerializeOption(r.platform, SerializePlatform(r.platform.v))),
          Entry(Key(CamelCaseField(f_platform_version)),
                SerializeOption(r.platform_version, SStr(r.platform_version.v))) >>

VersionsRequestUrl(r) == BASE_API_URL \o "/projects/" \o r.slug \o "/versions"

\* VersionsRequest::builder(): slug and pagination are required
BuildVersionsRequest(args) ==
    [slug |-> args.slug,
     pagination |-> PaginationFrom(args.pagination),
     include_hidden_channels |-> args.include_hidden_channels,
     channel |-> args.channel,
     platform |-> args.platform,
     platform_version |-> args.platform_version]

\* #[derive(Serialize)] for VersionRequest: both fields are #[serde(skip)]
SerializeVersionRequest(r) == << >>

\* VersionRequestUrl with the version name before the slug
VersionRequestUrlSwapped(r) ==
    BASE_API_URL \o "/projects/" \o r.name \o "/versions/" \o r.slug

VersionRequestUrl(r) ==
    BASE_API_URL \o "/projects/" \o r.slug \o "/versions/" \o r.name

(***************************************************************************)
(* Deserialization: the building blocks the derived impls are made of.     *)
(***************************************************************************)
\* what a struct's deserializer finds under key k: the value, or nothing
JMissing == [t |-> "missing"]

Field(j, k) == IF j.t = "obj" /\ Has(j.o, k) THEN j.o[k] ELSE JMissing

Elements(j) == IF j.t = "arr" THEN j.a ELSE << >>

\* a field of type String, i64 or bool: a missing key, a null and a value
\* of another type are all errors
DecodeString(j) == IF j.t = "str" THEN Ok(j.s) ELSE Err("invalid type")

DecodeI64(j) == IF j.t = "int" THEN Ok(j.n) ELSE Err("invalid type")

DecodeBool(j) == IF j.t = "bool" THEN Ok(j.b) ELSE Err("invalid type")

\* a field of type Option<T>: a missing key and a null are both None;
\* r is what T's deserializer makes of the value
DecodeOptional(j, r) ==
    IF j.t \in {"missing", "null"} THEN Ok(None)
    ELSE IF r.ok THEN Ok(Some(r.val)) ELSE r

\* Vec<T>: every element must decode; rs are the elements' results
DecodeVec(j, rs) ==
    IF j.t # "arr" THEN Err("invalid type")
    ELSE IF \E i \in DOMAIN rs : ~rs[i].ok THEN Err("invalid element")
    ELSE Ok([i \in DOMAIN rs |-> rs[i].val])

DecodeCategory(j) == DecodeEnum(CategoryVariants, CategoryWire, j)

DecodePlatform(j) == DecodeEnum(PlatformVariants, PlatformWire, j)

DecodeVisibility(j) == DecodeEnum(VisibilityVariants, VisibilityWire, j)

DecodeProjectTags(j) == DecodeEnum(ProjectTagsVariants, ProjectTagsWire, j)

DecodeReviewState(j) == DecodeEnum(ReviewStateVariants, ReviewStateWire, j)

DecodeChannelFlags(j) == DecodeEnum(ChannelFlagsVariants, ChannelFlagsWire, j)

DecodePinnedStatus(j) == DecodeEnum(PinnedStatusVariants, PinnedStatusWire, j)

(***************************************************************************)
(* object.rs: VersionDownloads, an untagged enum of two struct variants.   *)
(***************************************************************************)
\* #[derive(Deserialize)] for VersionDownloadsFileInfo
DecodeFileInfo(j) ==
    LET name == DecodeString(Field(j, Key(CamelCaseField(f_name))))
        size == DecodeI64(Field(j, Key(CamelCaseField(f_size_bytes))))
        hash == DecodeString(Field(j, Key(CamelCaseField(f_sha256_hash))))
    IN  IF j.t = "obj" /\ name.ok /\ size.ok /\ hash.ok
        THEN Ok([name |-> name.val, size_bytes |-> size.val, sha256_hash |-> hash.val])
        ELSE Err("VersionDownloadsFileInfo")

\* DecodeInternal refusing a payload that also carries an external url
DecodeInternalExclusive(j) ==
    LET info == DecodeFileInfo(Field(j, Key(CamelCaseField(f_file_info))))
        url == DecodeString(Field(j, Key(CamelCaseField(f_download_url))))
        other == DecodeString(Field(j, Key(CamelCaseField(f_external_url))))
    IN  IF j.t = "obj" /\ info.ok /\ url.ok /\ ~other.ok
        THEN Ok([variant |-> "Internal", file_info |-> info.val,
                 download_url |-> url.val])
        ELSE Err("Internal")

\* the Internal variant: file_info and download_url are both required
DecodeInternal(j) ==
    LET info == DecodeFileInfo(Field(j, Key(CamelCaseField(f_file_info))))
        url == DecodeString(Field(j, Key(CamelCaseField(f_download_url))))
    IN  IF j.t = "obj" /\ info.ok /\ url.ok
        THEN Ok([variant |-> "Internal", file_info |-> info.val,
                 download_url |-> url.val])
        ELSE Err("Internal")

\* the External variant: external_url is required
DecodeExternal(j) ==
    LET url == DecodeString(Field(j, Key(CamelCaseField(f_external_url))))
    IN  IF j.t = "obj" /\ url.ok
        THEN Ok([variant |-> "External", external_url |-> url.val])
        ELSE Err("External")

\* DecodeVersionDownloads with the variants tried in the other order
DecodeVersionDownloadsExternalFirst(j) ==
    LET internal == DecodeInternal(j)
        external == DecodeExternal(j)
    IN  IF external.ok THEN external
        ELSE IF internal.ok THEN internal
        ELSE Err("data did not match any variant of untagged enum VersionDownloads")

\* #[serde(untagged)]: the variants are tried in declaration order and the
\* first that decodes is the result
DecodeVersionDownloads(j) ==
    LET internal == DecodeInternal(j)
        external == DecodeExternal(j)
    IN  IF internal.ok THEN internal
        ELSE IF external.ok THEN external
        ELSE Err("data did not match any variant of untagged enum VersionDownloads")

(***************************************************************************)
(* object.rs: ByPlatform<T>.                                               *)
(***************************************************************************)
\* #[derive(Deserialize)] for ByPlatform<T>: three Option<T> fields under the
\* keys PAPER, WATERFALL and VELOCITY, other keys ignored; the arguments are
\* what Option<T>'s deserializer makes of each field
DecodeByPlatform(j, paper, waterfall, velocity) ==
    IF j.t = "obj" /\ paper.ok /\ waterfall.ok /\ velocity.ok
    THEN Ok([paper |-> paper.val, waterfall |-> waterfall.val,
             velocity |-> velocity.val])
    ELSE Err("ByPlatform")

\* ByPlatform<i64>
DecodeByPlatformI64(j) ==
    DecodeByPlatform(j,
        DecodeOptional(Field(j, "PAPER"), DecodeI64(Field(j, "PAPER"))),
        DecodeOptional(Field(j, "WATERFALL"), DecodeI64(Field(j, "WATERFALL"))),
        DecodeOptional(Field(j, "VELOCITY"), DecodeI64(Field(j, "VELOCITY"))))

\* ByPlatform::get
ByPlatformGet(bp, platform) ==
    CASE platform = "Paper" -> bp.paper
      [] platform = "Waterfall" -> bp.waterfall
      [] platform = "Velocity" -> bp.velocity

\* ByPlatformIter with the Waterfall source chained before the Paper source
ByPlatformIterWaterfallFirst(bp) ==
    [slot |-> 1,
     src |-> << [platform |-> "Waterfall", item |-> bp.waterfall],
                [platform |-> "Paper", item |-> bp.paper],
                [platform |-> "Velocity", item |-> bp.velocity] >>]

\* ByPlatform::iter: three option iterators chained, each tagged with its
\* platform; `slot` is the first source not yet exhausted
ByPlatformIter(bp) ==
    [slot |-> 1,
     src |-> << [platform |-> "Paper", item |-> bp.paper],
                [platform |-> "Waterfall", item |-> bp.waterfall],
                [platform |-> "Velocity", item |-> bp.velocity] >>]

\* Iterator::next on the chain: the value of the first source that still
\* holds one, or None when all are exhausted
RECURSIVE ChainNext(_)
ChainNext(it) ==
    IF it.slot > Len(it.src) THEN [item |-> None, it |-> it]
    ELSE LET s == it.src[it.slot]
             rest == [it EXCEPT !.slot = @ + 1]
         IN  IF s.item.some
             THEN [item |-> Some(<<s.platform, s.item.v>>), it |-> rest]
             ELSE ChainNext(rest)

(***************************************************************************)
(* object.rs, api.rs: the response structs.  Of each struct the model      *)
(* keeps the enum-typed fields, the containers that lead to them and one   *)
(* plain required field; the remaining fields are required fields of the   *)
(* same kind as `name` and are left out.                                   *)
(***************************************************************************)
DecodeVecProjectTags(j) ==
    DecodeVec(j, [i \in DOMAIN Elements(j) |-> DecodeProjectTags(Elements(j)[i])])

\* #[derive(Deserialize)] for ProjectSettings (no rename_all)
DecodeProjectSettings(j) ==
    LET tags == DecodeVecProjectTags(Field(j, Key(PlainField(f_tags))))
    IN  IF j.t = "obj" /\ tags.ok THEN Ok([tags |-> tags.val])
        ELSE Err("ProjectSettings")

\* #[derive(Deserialize)] for Project
DecodeProject(j) ==
    LET name == DecodeString(Field(j, Key(CamelCaseField(f_name))))
        category == DecodeCategory(Field(j, Key(CamelCaseField(f_category))))
        visibility == DecodeVisibility(Field(j, Key(CamelCaseField(f_visibility))))
        settings == DecodeProjectSettings(Field(j, Key(CamelCaseField(f_settings))))
    IN  IF j.t = "obj" /\ name.ok /\ category.ok /\ visibility.ok /\ settings.ok
        THEN Ok([name |-> name.val, category |-> category.val,
                 visibility |-> visibility.val, settings |-> settings.val])
        ELSE Err("Project")

DecodeVecChannelFlags(j) ==
    DecodeVec(j, [i \in DOMAIN Elements(j) |-> DecodeChannelFlags(Elements(j)[i])])

\* #[derive(Deserialize)] for Channel
DecodeChannel(j) ==
    LET name == DecodeString(Field(j, Key(CamelCaseField(f_name))))
        flags == DecodeVecChannelFlags(Field(j, Key(CamelCaseField(f_flags))))
    IN  IF j.t = "obj" /\ name.ok /\ flags.ok
        THEN Ok([name |-> name.val, flags |-> flags.val])
        ELSE Err("Channel")

\* #[derive(Deserialize)] for VersionPluginDependencies
DecodeVersionPluginDependencies(j) ==
    LET name == DecodeString(Field(j, Key(CamelCaseField(f_name))))
        required == DecodeBool(Field(j, Key(CamelCaseField(f_required))))
        url == DecodeOptional(Field(j, Key(CamelCaseField(f_external_url))),
                              DecodeString(Field(j, Key(CamelCaseField(f_external_url)))))
        platform == DecodePlatform(Field(j, Key(CamelCaseField(f_platform))))
    IN  IF j.t = "obj" /\ name.ok /\ required.ok /\ url.ok /\ platform.ok
        THEN Ok([name |-> name.val, required |-> required.val,
                 external_url |-> url.val, platform |-> platform.val])
        ELSE Err("VersionPluginDependencies")

DecodeVecPluginDependencies(j) ==
    DecodeVec(j, [i \in DOMAIN Elements(j) |->
                    DecodeVersionPluginDependencies(Elements(j)[i])])

\* ByPlatform<Vec<VersionPluginDependencies>>
DecodePluginDependencies(j) ==
    DecodeByPlatform(j,
        DecodeOptional(Field(j, "PAPER"), DecodeVecPluginDependencies(Field(j, "PAPER"))),
        DecodeOptional(Field(j, "WATERFALL"),
                       DecodeVecPluginDependencies(Field(j, "WATERFALL"))),
        DecodeOptional(Field(j, "VELOCITY"),
                       DecodeVecPluginDependencies(Field(j, "VELOCITY"))))

\* #[derive(Deserialize)] for Version
DecodeVersion(j) ==
    LET name == DecodeString(Field(j, Key(CamelCaseField(f_name))))
        visibility == DecodeVisibility(Field(j, Key(CamelCaseField(f_visibility))))
        review == DecodeReviewState(Field(j, Key(CamelCaseField(f_review_state))))
        channel == DecodeChannel(Field(j, Key(CamelCaseField(f_channel))))
        pinned == DecodePinnedStatus(Field(j, Key(CamelCaseField(f_pinned_status))))
        deps == DecodePluginDependencies(
                    Field(j, Key(CamelCaseField(f_plugin_dependencies))))
    IN  IF j.t = "obj" /\ name.ok /\ visibility.ok /\ review.ok /\ channel.ok
           /\ pinned.ok /\ deps.ok
        THEN Ok([name |-> name.val, visibility |-> visibility.val,
                 review_state |-> review.val, channel |-> channel.val,
                 pinned_status |-> pinned.val, plugin_dependencies |-> deps.val])
        ELSE Err("Version")

\* #[derive(Deserialize)] for PaginationResponse
DecodePaginationResponse(j) ==
    LET limit == DecodeI64(Field(j, "limit"))
        offset == DecodeI64(Field(j, "offset"))
        count == DecodeI64(Field(j, "count"))
    IN  IF j.t = "obj" /\ limit.ok /\ offset.ok /\ count.ok
        THEN Ok([limit |-> limit.val, offset |-> offset.val, count |-> count.val])
        ELSE Err("PaginationResponse")

DecodeVecProject(j) ==
    DecodeVec(j, [i \in DOMAIN Elements(j) |-> DecodeProject(Elements(j)[i])])

DecodeVecVersion(j) ==
    DecodeVec(j, [i \in DOMAIN Elements(j) |-> DecodeVersion(Elements(j)[i])])

\* #[derive(Deserialize)] for ProjectsResponse: pagination and result
DecodeProjectsResponse(j) ==
    LET pagination == DecodePaginationResponse(Field(j, "pagination"))
        result == DecodeVecProject(Field(j, Key(PlainField(f_result))))
    IN  IF j.t = "obj" /\ pagination.ok /\ result.ok
        THEN Ok([pagination |-> pagination.val, result |-> result.val])
        ELSE Err("ProjectsResponse")

\* #[derive(Deserialize)] for VersionsResponse: pagination and result
DecodeVersionsResponse(j) ==
    LET pagination == DecodePaginationResponse(Field(j, "pagination"))
        result == DecodeVecVersion(Field(j, Key(PlainField(f_result))))
    IN  IF j.t = "obj" /\ pagination.ok /\ result.ok
        THEN Ok([pagination |-> pagination.val, result |-> result.val])
        ELSE Err("VersionsResponse")

(***************************************************************************)
(* The inputs the calls are drawn from.                                    *)
(***************************************************************************)
JBool(b) == [t |-> "bool", b |-> b]

Opt(S) == {None} \cup {Some(v) : v \in S}

SeqsUpTo(S, n) == UNION {[1..k -> S] : k \in 0..n}

I64Samples == {-3, 0, 25, 120}

Slugs == {"", "Essentials", "a/b", "x y?"}

VersionNames == {"", "1.0.0", "../v"}

PagePaths == {"", "Home", "a/b"}

PaginationArgs == I64Samples \X I64Samples

\* what the caller hands to the builder; None is a filter left unset
ProjectsRequestArgs ==
    [prioritize_exact_match : Opt({TRUE}),
     pagination : PaginationArgs,
     sort : Opt({"Slug"}),
     category : Opt({"AdminTools"}),
     platform : Opt({"Paper"}),
     owner : Opt({"zyllian"}),
     query : Opt({""}),
     license : Opt({"MIT"}),
     version : Opt({"1.20"}),
     tag : Opt({"ADDON"}),
     member : Opt({"zyllian"})]

ProjectRequests == [slug : Slugs]

PageRequests == [slug : Slugs, path : PagePaths]

VersionsRequestArgs ==
    [slug : Slugs,
     pagination : PaginationArgs,
     include_hidden_channels : Opt({FALSE}),
     channel : Opt({"Release"}),
     platform : Opt({"Velocity"}),
     platform_version : Opt({""})]

VersionRequests == [slug : Slugs, name : VersionNames]

FileInfoPayloads ==
    {JNull,
     JObj([name |-> JStr("a.jar"), sizeBytes |-> JInt(120), sha256Hash |-> JStr("ab")]),
     JObj([name |-> JStr("a.jar"), sizeBytes |-> JInt(120)]),
     JObj([name |-> JStr("a.jar"), sizeBytes |-> JStr("120"), sha256Hash |-> JStr("ab")])}

DownloadUrlPayloads == {JNull, JStr("https://hangar/dl"), JInt(25)}

ExternalUrlPayloads == {JNull, JStr("https://elsewhere/dl"), JInt(25)}

VersionDownloadsPayloads ==
    {JNull}
    \cup {JObj(o) : o \in Objects({}, {"fileInfo", "downloadUrl", "externalUrl"},
                                 [fileInfo |-> FileInfoPayloads,
                                  downloadUrl |-> DownloadUrlPayloads,
                                  externalUrl |-> ExternalUrlPayloads])}

PlatformValuePayloads == {JNull, JInt(5), JInt(7), JStr("x")}

ByPlatformPayloads ==
    {JObj(o) : o \in Objects({}, {"PAPER", "WATERFALL", "VELOCITY", "FOLIA"},
                             [PAPER |-> PlatformValuePayloads,
                              WATERFALL |-> PlatformValuePayloads,
                              VELOCITY |-> PlatformValuePayloads,
                              FOLIA |-> {JInt(5)}])}

WireStrings(wire, others) ==
    {JStr(wire[i]) : i \in DOMAIN wire} \cup {JStr(s) : s \in others}

TagsPayloads ==
    {JArr(a) : a \in SeqsUpTo({JStr("ADDON"), JStr("SUPPORTS_FOLIA"), JStr("addon")},
                              MaxItems)}

ProjectPayloads ==
    {JObj(o) : o \in Objects({"category", "visibility", "settings"}, {"name"},
        [name |-> {JStr("Essentials")},
         category |-> WireStrings(CategoryWire, {"AdminTools", "unknown"}),
         visibility |-> WireStrings(VisibilityWire, {"Public", "needs_changes"}),
         settings |-> {JObj(<<>>)} \cup {JObj([tags |-> t]) : t \in TagsPayloads}])}

FlagsPayloads ==
    {JArr(a) : a \in SeqsUpTo({JStr("FROZEN"), JStr("SENDS_NOTIFICATIONS"),
                               JStr("Frozen")}, MaxItems)}

DependencyPayloads ==
    {JObj(<<>>)}
    \cup {JObj([PAPER |-> JArr(<<JObj([name |-> JStr("Vault"), required |-> JBool(TRUE),
                                      externalUrl |-> JNull, platform |-> JStr(p)])>>)])
          : p \in {"PAPER", "VELOCITY", "Paper"}}

VersionPayloads ==
    {JObj(o) : o \in Objects(
        {"name", "visibility", "channel", "pinnedStatus", "pluginDependencies"},
        {"reviewState"},
        [name |-> {JStr("1.0.0")},
         visibility |-> {JStr("public"), JStr("softDelete"), JStr("Public")},
         reviewState |-> WireStrings(ReviewStateWire, {"REVIEWED"}),
         channel |-> {JObj([name |-> JStr("Release"), flags |-> f]) : f \in FlagsPayloads},
         pinnedStatus |-> WireStrings(PinnedStatusWire, {"none"}),
         pluginDependencies |-> DependencyPayloads])}

PaginationResponsePayloads ==
    {JObj([limit |-> JInt(25), offset |-> JInt(0), count |-> JInt(120)]),
     JObj([limit |-> JInt(25), offset |-> JInt(0)])}

ProjectSample(category, visibility, tag) ==
    JObj([name |-> JStr("Essentials"), category |-> JStr(category),
          visibility |-> JStr(visibility),
          settings |-> JObj([tags |-> JArr(<<JStr(tag)>>)])])

ProjectSamples ==
    {ProjectSample("admin_tools", "public", "ADDON"),
     ProjectSample("AdminTools", "public", "ADDON"),
     ProjectSample("misc", "NeedsChanges", "ADDON"),
     ProjectSample("misc", "new", "Addon")}

VersionSample(visibility, review, flag, pinned, platform) ==
    JObj([name |-> JStr("1.0.0"), visibility |-> JStr(visibility),
          reviewState |-> JStr(review),
          channel |-> JObj([name |-> JStr("Release"), flags |-> JArr(<<JStr(flag)>>)]),
          pinnedStatus |-> JStr(pinned),
          pluginDependencies |->
              JObj([PAPER |-> JArr(<<JObj([name |-> JStr("Vault"),
                                          required |-> JBool(TRUE),
                                          platform |-> JStr(platform)])>>)])])

VersionSamples ==
    {VersionSample("public", "reviewed", "PINNED", "NONE", "PAPER"),
     VersionSample("public", "under_review", "PINNED", "NONE", "PAPER"),
     VersionSample("public", "reviewed", "pinned", "NONE", "PAPER"),
     VersionSample("public", "reviewed", "PINNED", "None", "PAPER"),
     VersionSample("public", "reviewed", "PINNED", "NONE", "FOLIA")}

ListResponsePayloads(samples) ==
    {JObj([pagination |-> p, result |-> JArr(r)]) :
        p \in PaginationResponsePayloads, r \in SeqsUpTo(samples, MaxItems)}

Calls ==
    {[op |-> "Pagination", how |-> "default", value |-> <<0, 0>>]}
    \cup {[op |-> "Pagination", how |-> h, value |-> <<l, o>>] :
            h \in {"from", "literal"}, l \in I64Samples, o \in I64Samples}
    \cup {[op |-> "ProjectsRequest", args |-> a] : a \in ProjectsRequestArgs}
    \cup {[op |-> "ProjectRequest", req |-> r] : r \in ProjectRequests}
    \cup {[op |-> "PageRequest", req |-> r, other |-> s] :
            r \in PageRequests, s \in PageRequests}
    \cup {[op |-> "VersionsRequest", args |-> a] : a \in VersionsRequestArgs}
    \cup {[op |-> "VersionRequest", req |-> r] : r \in VersionRequests}
    \cup {[op |-> "ProjectsSort", a |-> a, b |-> b] :
            a \in Values(ProjectsSortVariants), b \in Values(ProjectsSortVariants)}
    \cup {[op |-> "VersionDownloads", payload |-> p] : p \in VersionDownloadsPayloads}
    \cup {[op |-> "ByPlatform", payload |-> p] : p \in ByPlatformPayloads}
    \cup {[op |-> "Project", payload |-> p] : p \in ProjectPayloads}
    \cup {[op |-> "Version", payload |-> p] : p \in VersionPayloads}
    \cup {[op |-> "ProjectsResponse", payload |-> p] :
            p \in ListResponsePayloads(ProjectSamples)}
    \cup {[op |-> "VersionsResponse", payload |-> p] :
            p \in ListResponsePayloads(VersionSamples)}

(***************************************************************************)
(* The state machine: a call is made, its operations are applied.          *)
(***************************************************************************)
NotReturned == [kind |-> "none"]

NotCalled == [called |-> FALSE]

NoIterator == [slot |-> 0, src |-> <<>>]

Init ==
    /\ call \in Calls
    /\ ret = NotReturned
    /\ got = NotCalled
    /\ iter = [calls |-> 0, open |-> FALSE, it |-> NoIterator,
               yielded |-> <<>>, runs |-> <<>>]

\* Pagination::default()
NewPaginationDefault ==
    /\ call.op = "Pagination"
    /\ call.how = "default"
    /\ ret = NotReturned
    /\ ret' = [kind |-> "pagination", p |-> PaginationDefault]
    /\ UNCHANGED <<call, got, iter>>

\* Pagination::from((limit, offset))
NewPaginationFrom ==
    /\ call.op = "Pagination"
    /\ call.how = "from"
    /\ ret = NotReturned
    /\ ret' = [kind |-> "pagination", p |-> PaginationFrom(call.value)]
    /\ UNCHANGED <<call, got, iter>>

\* Pagination { limit, offset }
NewPaginationLiteral ==
    /\ call.op = "Pagination"
    /\ call.how = "literal"
    /\ ret = NotReturned
    /\ ret' = [kind |-> "pagination",
               p |-> PaginationLiteral(call.value[1], call.value[2])]
    /\ UNCHANGED <<call, got, iter>>

CallProjectsRequestUrl ==
    /\ call.op = "ProjectsRequest"
    /\ ret = NotReturned
    /\ ret' = [kind |-> "url", url |-> ProjectsRequestUrl(BuildProjectsRequest(call.args))]
    /\ UNCHANGED <<call, got, iter>>

CallSerializeProjectsRequest ==
    /\ call.op = "ProjectsRequest"
    /\ ret = NotReturned
    /\ ret' = [kind |-> "params",
               entries |-> SerializeProjectsRequest(BuildProjectsRequest(call.args))]
    /\ UNCHANGED <<call, got, iter>>

CallProjectRequestUrl ==
    /\ call.op = "ProjectRequest"
    /\ ret = NotReturned
    /\ ret' = [kind |-> "url", url |-> ProjectRequestUrl(call.req)]
    /\ UNCHANGED <<call, got, iter>>

CallSerializeProjectRequest ==
    /\ call.op = "ProjectRequest"
    /\ ret = NotReturned
    /\ ret' = [kind |-> "params", entries |-> SerializeProjectRequest(call.req)]
    /\ UNCHANGED <<call, got, iter>>

\* url() of two page requests, to compare them
CallPageRequestUrl ==
    /\ call.op = "PageRequest"
    /\ ret = NotReturned
    /\ ret' = [kind |-> "url", url |-> PageRequestUrl(call.req),
               url2 |-> PageRequestUrl(call.other)]
    /\ UNCHANGED <<call, got, iter>>

CallSerializePageRequest ==
    /\ call.op = "PageRequest"
    /\ ret = NotReturned
    /\ ret' = [kind |-> "params", entries |-> SerializePageRequest(call.req)]
    /\ UNCHANGED <<call, got, iter>>

CallVersionsRequestUrl ==
    /\ call.op = "VersionsRequest"
    /\ ret = NotReturned
    /\ ret' = [kind |-> "url", url |-> VersionsRequestUrl(BuildVersionsRequest(call.args))]
    /\ UNCHANGED <<call, got, iter>>

CallSerializeVersionsRequest ==
    /\ call.op = "VersionsRequest"
    /\ ret = NotReturned
    /\ ret' = [kind |-> "params",
               entries |-> SerializeVersionsRequest(BuildVersionsRequest(call.args))]
    /\ UNCHANGED <<call, got, iter>>

CallVersionRequestUrl ==
    /\ call.op = "VersionRequest"
    /\ ret = NotReturned
    /\ ret' = [kind |-> "url", url |-> VersionRequestUrl(call.req)]
    /\ UNCHANGED <<call, got, iter>>

CallSerializeVersionRequest ==
    /\ call.op = "VersionRequest"
    /\ ret = NotReturned
    /\ ret' = [kind |-> "params", entries |-> SerializeVersionRequest(call.req)]
    /\ UNCHANGED <<call, got, iter>>

\* two sort keys serialized, to compare them
CallSerializeProjectsSort ==
    /\ call.op = "ProjectsSort"
    /\ ret = NotReturned
    /\ ret' = [kind |-> "sort", a |-> SerializeProjectsSort(call.a),
               b |-> SerializeProjectsSort(call.b)]
    /\ UNCHANGED <<call, got, iter>>

Decoded(result) == [kind |-> "decoded", result |-> result]

CallDecodeVersionDownloads ==
    /\ call.op = "VersionDownloads"
    /\ ret = NotReturned
    /\ ret' = Decoded(DecodeVersionDownloads(call.payload))
    /\ UNCHANGED <<call, got, iter>>

CallDecodeByPlatform ==
    /\ call.op = "ByPlatform"
    /\ ret = NotReturned
    /\ ret' = Decoded(DecodeByPlatformI64(call.payload))
    /\ UNCHANGED <<call, got, iter>>

CallDecodeProject ==
    /\ call.op = "Project"
    /\ ret = NotReturned
    /\ ret' = Decoded(DecodeProject(call.payload))
    /\ UNCHANGED <<call, got, iter>>

CallDecodeVersion ==
    /\ call.op = "Version"
    /\ ret = NotReturned
    /\ ret' = Decoded(DecodeVersion(call.payload))
    /\ UNCHANGED <<call, got, iter>>

CallDecodeProjectsResponse ==
    /\ call.op = "ProjectsResponse"
    /\ ret = NotReturned
    /\ ret' = Decoded(DecodeProjectsResponse(call.payload))
    /\ UNCHANGED <<call, got, iter>>

CallDecodeVersionsResponse ==
    /\ call.op = "VersionsResponse"
    /\ ret = NotReturned
    /\ ret' = Decoded(DecodeVersionsResponse(call.payload))
    /\ UNCHANGED <<call, got, iter>>

HasByPlatform == call.op = "ByPlatform" /\ ret.kind = "decoded" /\ ret.result.ok

\* get(platform) on the decoded value
CallByPlatformGet ==
    /\ HasByPlatform
    /\ \E p \in Values(PlatformVariants) :
          got' = [called |-> TRUE, platform |-> p,
                  value |-> ByPlatformGet(ret.result.val, p)]
    /\ UNCHANGED <<call, ret, iter>>

\* iter() on the decoded value: a new iterator, whatever became of the last
CallByPlatformIter ==
    /\ HasByPlatform
    /\ iter.calls < MaxIterCalls
    /\ iter' = [iter EXCEPT !.calls = @ + 1, !.open = TRUE,
                            !.it = ByPlatformIter(ret.result.val),
                            !.yielded = <<>>]
    /\ UNCHANGED <<call, ret, got>>

\* next() on the iterator; a None ends the run
CallIteratorNext ==
    /\ iter.open
    /\ LET n == ChainNext(iter.it)
       IN  iter' = IF n.item.some
                   THEN [iter EXCEPT !.it = n.it, !.yielded = Append(@, n.item.v)]
                   ELSE [iter EXCEPT !.it = n.it, !.open = FALSE,
                                     !.runs = Append(@, iter.yielded)]
    /\ UNCHANGED <<call, ret, got>>

Next ==
    \/ NewPaginationDefault
    \/ NewPaginationFrom
    \/ NewPaginationLiteral
    \/ CallProjectsRequestUrl
    \/ CallSerializeProjectsRequest
    \/ CallProjectRequestUrl
    \/ CallSerializeProjectRequest
    \/ CallPageRequestUrl
    \/ CallSerializePageRequest
    \/ CallVersionsRequestUrl
    \/ CallSerializeVersionsRequest
    \/ CallVersionRequestUrl
    \/ CallSerializeVersionRequest
    \/ CallSerializeProjectsSort
    \/ CallDecodeVersionDownloads
    \/ CallDecodeByPlatform
    \/ CallDecodeProject
    \/ CallDecodeVersion
    \/ CallDecodeProjectsResponse
    \/ CallDecodeVersionsResponse
    \/ CallByPlatformGet
    \/ CallByPlatformIter
    \/ CallIteratorNext

Spec == Init /\ [][Next]_vars

(***************************************************************************)
(* Claims.  What a payload carries is read off the payload by the literal  *)
(* wire keys, independently of the decoders above.                         *)
(***************************************************************************)
\* the payload is an object in which key k holds a value of the given type
Carries(j, k, type) == j.t = "obj" /\ k \in DOMAIN j.o /\ j.o[k].t = type

\* the payload holds a fileInfo object with all three of its fields
CarriesFileInfo(j) ==
    /\ Carries(j, "fileInfo", "obj")
    /\ Carries(j.o["fileInfo"], "name", "str")
    /\ Carries(j.o["fileInfo"], "sizeBytes", "int")
    /\ Carries(j.o["fileInfo"], "sha256Hash", "str")

InternalShape(j) == CarriesFileInfo(j) /\ Carries(j, "downloadUrl", "str")

ExternalShape(j) == Carries(j, "externalUrl", "str")

DecodedVersionDownloads == call.op = "VersionDownloads" /\ ret.kind = "decoded"

\* C1: decoding a download-info payload tries the Internal shape, then the
\* External shape, and selects the first whose required fields are all
\* there: fileInfo and downloadUrl give Internal, otherwise externalUrl gives
\* External, otherwise (the empty payload, fileInfo alone, ...) decoding fails.
C1_FirstSatisfiedShape ==
    DecodedVersionDownloads =>
        IF InternalShape(call.payload)
        THEN /\ ret.result.ok
             /\ ret.result.val.variant = "Internal"
             /\ ret.result.val.download_url = call.payload.o["downloadUrl"].s
             /\ ret.result.val.file_info.name = call.payload.o["fileInfo"].o["name"].s
        ELSE IF ExternalShape(call.payload)
        THEN /\ ret.result.ok
             /\ ret.result.val.variant = "External"
             /\ ret.result.val.external_url = call.payload.o["externalUrl"].s
        ELSE ~ret.result.ok

\* the first shape was tried and failed, and the second was selected
C1_Witness ==
    /\ DecodedVersionDownloads
    /\ CarriesFileInfo(call.payload)
    /\ ~Carries(call.payload, "downloadUrl", "str")
    /\ ExternalShape(call.payload)
    /\ ret.result.ok
    /\ ret.result.val.variant = "External"

Ambiguous(j) == InternalShape(j) /\ ExternalShape(j)

Empty(j) == j.t = "obj" /\ DOMAIN j.o = {}

ProjectsFilterKeys ==
    [prioritize_exact_match |-> "prioritizeExactMatch", sort |-> "sort",
     category |-> "category", platform |-> "platform", owner |-> "owner",
     query |-> "query", license |-> "license", version |-> "version",
     tag |-> "tag", member |-> "member"]

VersionsFilterKeys ==
    [include_hidden_channels |-> "includeHiddenChannels", channel |-> "channel",
     platform |-> "platform", platform_version |-> "platformVersion"]

EntryKeys(entries) == {entries[i].key : i \in DOMAIN entries}

UnsetFiltersOmitted(filterKeys) ==
    \A f \in DOMAIN filterKeys :
        ~call.args[f].some => filterKeys[f] \notin EntryKeys(ret.entries)

\* C3: every optional filter of a ProjectsRequest or VersionsRequest that was
\* not set is absent from the serialized parameter set: its key does not
\* appear at all, neither with a null nor with an empty value.
C3_UnsetFiltersAreOmitted ==
    /\ (call.op = "ProjectsRequest" /\ ret.kind = "params")
          => UnsetFiltersOmitted(ProjectsFilterKeys)
    /\ (call.op = "VersionsRequest" /\ ret.kind = "params")
          => UnsetFiltersOmitted(VersionsFilterKeys)

(***************************************************************************)
(* Writing an i64 as query-string text and reading it back.                *)
(***************************************************************************)
DigitChars == <<"0", "1", "2", "3", "4", "5", "6", "7", "8", "9">>

RECURSIVE FormatNat(_)
FormatNat(n) ==
    IF n < 10 THEN <<DigitChars[n + 1]>>
    ELSE Append(FormatNat(n \div 10), DigitChars[(n % 10) + 1])

FormatI64(n) == IF n < 0 THEN <<"-">> \o FormatNat(-n) ELSE FormatNat(n)

DigitValue(c) == (CHOOSE i \in DOMAIN DigitChars : DigitChars[i] = c) - 1

RECURSIVE ParseNat(_)
ParseNat(s) ==
    IF s = <<>> THEN 0
    ELSE ParseNat(SubSeq(s, 1, Len(s) - 1)) * 10 + DigitValue(s[Len(s)])

ParseI64(s) == IF s # <<>> /\ s[1] = "-" THEN -ParseNat(Tail(s)) ELSE ParseNat(s)

\* the entries under key k, as text
TextsUnder(entries, k) ==
    {FormatI64(entries[i].value.n) :
        i \in {x \in DOMAIN entries : entries[x].key = k /\ entries[x].value.t = "i64"}}

Positions(entries, k) == {i \in DOMAIN entries : entries[i].key = k}

\* C7: serializing a ProjectsRequest built with pagination (limit, offset)
\* and re-parsing the parameter set recovers (limit, offset): the flattened
\* pagination contributes exactly the keys limit and offset, limit carrying
\* the first component and offset the second, whatever filters are set.
C7_PaginationRoundTrip ==
    (call.op = "ProjectsRequest" /\ ret.kind = "params") =>
        /\ Cardinality(Positions(ret.entries, "limit")) = 1
        /\ Cardinality(Positions(ret.entries, "offset")) = 1
        /\ {ParseI64(t) : t \in TextsUnder(ret.entries, "limit")}
              = {call.args.pagination[1]}
        /\ {ParseI64(t) : t \in TextsUnder(ret.entries, "offset")}
              = {call.args.pagination[2]}
        /\ EntryKeys(ret.entries)
              \ {ProjectsFilterKeys[f] : f \in DOMAIN ProjectsFilterKeys}
              = {"limit", "offset"}

\* a negative limit, a multi-digit offset and a filter set, serialized
C7_Witness ==
    /\ call.op = "ProjectsRequest"
    /\ ret.kind = "params"
    /\ call.args.pagination = <<-3, 120>>
    /\ call.args.owner.some
    /\ TextsUnder(ret.entries, "limit") = {<<"-", "3">>}
    /\ TextsUnder(ret.entries, "offset") = {<<"1", "2", "0">>}

\* C8 as stated: in every Pagination value that can be constructed, limit
\* and offset are both non-negative; the default is limit 25, offset 0.
C8_PaginationNonNegative ==
    ret.kind = "pagination" =>
        /\ ret.p.limit >= 0
        /\ ret.p.offset >= 0
        /\ call.how = "default" => ret.p = [limit |-> 25, offset |-> 0]

\* C8 as amended: the default Pagination is limit 25, offset 0; conversion
\* from a tuple and a struct literal store the two components unchanged,
\* with no sign check, so a negative component gives a negative field.
C8_PaginationStoresInputs ==
    ret.kind = "pagination" =>
        IF call.how = "default" THEN ret.p = [limit |-> 25, offset |-> 0]
        ELSE ret.p = [limit |-> call.value[1], offset |-> call.value[2]]

C8_Witness ==
    /\ ret.kind = "pagination"
    /\ call.how = "from"
    /\ call.value[1] < 0
    /\ ret.p.limit < 0

VersionedApiRoot == "https://hangar.papermc.io/api/v1"

\* C6: url() is the versioned API root followed by the operation's path,
\* slug and version name passed through verbatim, and is defined for every
\* request: /projects, /projects/{slug}, /pages/page/{slug},
\* /projects/{slug}/versions, /projects/{slug}/versions/{name}.
C6_UrlShapes ==
    /\ ret.kind = "url" =>
          ret.url =
              CASE call.op = "ProjectsRequest" -> VersionedApiRoot \o "/projects"
                [] call.op = "ProjectRequest" ->
                      VersionedApiRoot \o "/projects/" \o call.req.slug
                [] call.op = "PageRequest" ->
                      VersionedApiRoot \o "/pages/page/" \o call.req.slug
                [] call.op = "VersionsRequest" ->
                      VersionedApiRoot \o "/projects/" \o call.args.slug \o "/versions"
                [] call.op = "VersionRequest" ->
                      VersionedApiRoot \o "/projects/" \o call.req.slug
                          \o "/versions/" \o call.req.name
    /\ ret = NotReturned =>
          /\ call.op = "ProjectsRequest" => ENABLED CallProjectsRequestUrl
          /\ call.op = "ProjectRequest" => ENABLED CallProjectRequestUrl
          /\ call.op = "PageRequest" => ENABLED CallPageRequestUrl
          /\ call.op = "VersionsRequest" => ENABLED CallVersionsRequestUrl
          /\ call.op = "VersionRequest" => ENABLED CallVersionRequestUrl

\* a slug and a version name no server would accept, passed through
C6_Witness ==
    /\ call.op = "VersionRequest"
    /\ ret.kind = "url"
    /\ call.req.slug = "a/b"
    /\ call.req.name = "../v"
    /\ ret.url = "https://hangar.papermc.io/api/v1/projects/a/b/versions/../v"

\* C10: the page path is never part of the URL: two PageRequests with the
\* same slug have the same url() whatever their paths; the path is carried
\* only in the serialized parameters (key path) and the slug only in the URL.
C10_PathNotInUrl ==
    /\ (call.op = "PageRequest" /\ ret.kind = "url") =>
          /\ ret.url = VersionedApiRoot \o "/pages/page/" \o call.req.slug
          /\ call.req.slug = call.other.slug => ret.url = ret.url2
    /\ (call.op = "PageRequest" /\ ret.kind = "params") =>
          ret.entries = <<[key |-> "path", value |-> [t |-> "str", s |-> call.req.path]]>>

C10_Witness ==
    /\ call.op = "PageRequest"
    /\ ret.kind = "url"
    /\ call.req.slug = call.other.slug
    /\ call.req.path = "Home"
    /\ call.other.path = "a/b"
    /\ ret.url = ret.url2

SortKeyLiteral(v) ==
    CASE v = "Views" -> "-views"
      [] v = "Downloads" -> "-downloads"
      [] v = "Newest" -> "-newest"
      [] v = "Stars" -> "-stars"
      [] v = "Updated" -> "-updated"
      [] v = "RecentDownloads" -> "-recent-downloads"
      [] v = "RecentViews" -> "-recent-views"
      [] v = "Slug" -> "slug"

\* C5: ProjectsSort serializes by an exact literal mapping: the seven
\* descending variants to their key with a leading dash, Slug to slug with
\* none; two different variants never serialize alike.
C5_SortKeyMapping ==
    ret.kind = "sort" =>
        /\ ret.a = [t |-> "variant", s |-> SortKeyLiteral(call.a)]
        /\ ret.b = [t |-> "variant", s |-> SortKeyLiteral(call.b)]
        /\ call.a # call.b => ret.a # ret.b

C5_Witness ==
    /\ ret.kind = "sort"
    /\ call.a = "RecentDownloads"
    /\ call.b = "Slug"
    /\ ret.a.s = "-recent-downloads"
    /\ ret.b.s = "slug"

PlatformKeys == [Paper |-> "PAPER", Waterfall |-> "WATERFALL", Velocity |-> "VELOCITY"]

\* the payload holds a value for this platform
HoldsPlatform(p) == Carries(call.payload, PlatformKeys[p], "int")

PairOf(p) ==
    IF HoldsPlatform(p) THEN << <<p, call.payload.o[PlatformKeys[p]].n>> >> ELSE << >>

\* the pairs of the platforms the payload holds, in the fixed order
PairsInOrder == PairOf("Paper") \o PairOf("Waterfall") \o PairOf("Velocity")

IsPrefix(a, b) == Len(a) <= Len(b) /\ SubSeq(b, 1, Len(a)) = a

\* C4: for a ByPlatform decoded from a payload holding any subset of PAPER,
\* WATERFALL, VELOCITY: get(p) is the payload's value when p is held and
\* absence otherwise; iter() yields exactly the held platforms' pairs, each
\* once, in the order Paper, Waterfall, Velocity, and every call to iter()
\* yields that same finite sequence from the start.
C4_ByPlatformGetAndIter ==
    (call.op = "ByPlatform" /\ ret.kind = "decoded" /\ ret.result.ok) =>
        /\ got.called =>
              got.value = IF HoldsPlatform(got.platform)
                          THEN [some |-> TRUE,
                                v |-> call.payload.o[PlatformKeys[got.platform]].n]
                          ELSE [some |-> FALSE]
        /\ IsPrefix(iter.yielded, PairsInOrder)
        /\ (iter.calls > 0 /\ ~iter.open) => iter.yielded = PairsInOrder
        /\ \A i \in DOMAIN iter.runs : iter.runs[i] = PairsInOrder

\* two complete runs over a value that holds Paper and Velocity only, and a
\* get of the platform it does not hold
C4_Witness ==
    /\ call.op = "ByPlatform"
    /\ Len(iter.runs) = 2
    /\ iter.runs[1] = << <<"Paper", 5>>, <<"Velocity", 7>> >>
    /\ iter.runs[2] = iter.runs[1]
    /\ got.called
    /\ got.platform = "Waterfall"
    /\ ~got.value.some

CategoryNames ==
    {"admin_tools", "chat", "dev_tools", "economy", "gameplay", "games",
     "protection", "role_playing", "world_management", "misc", "undefined"}

PlatformNames == {"PAPER", "WATERFALL", "VELOCITY"}

VisibilityNames == {"public", "new", "needsChanges", "needsApproval", "softDelete"}

ReviewStateNames == {"unreviewed", "reviewed", "underReview", "partiallyReviewed"}

ChannelFlagNames ==
    {"FROZEN", "UNSTABLE", "PINNED", "SENDS_NOTIFICATIONS", "HIDE_BY_DEFAULT"}

PinnedStatusNames == {"NONE", "VERSION", "CHANNEL"}

ProjectTagNames == {"ADDON", "LIBRARY", "SUPPORTS_FOLIA"}

\* key k of the payload holds a string outside the enum's wire names
Unknown(j, k, names) == Carries(j, k, "str") /\ j.o[k].s \notin names

\* the array under key k holds such a string
UnknownIn(j, k, names) ==
    /\ Carries(j, k, "arr")
    /\ \E i \in DOMAIN j.o[k].a : j.o[k].a[i].t = "str" /\ j.o[k].a[i].s \notin names

ProjectHasUnknown(j) ==
    \/ Unknown(j, "category", CategoryNames)
    \/ Unknown(j, "visibility", VisibilityNames)
    \/ Carries(j, "settings", "obj") /\ UnknownIn(j.o["settings"], "tags", ProjectTagNames)

VersionHasUnknown(j) ==
    \/ Unknown(j, "visibility", VisibilityNames)
    \/ Unknown(j, "reviewState", ReviewStateNames)
    \/ Unknown(j, "pinnedStatus", PinnedStatusNames)
    \/ Carries(j, "channel", "obj") /\ UnknownIn(j.o["channel"], "flags", ChannelFlagNames)
    \/ /\ Carries(j, "pluginDependencies", "obj")
       /\ \E k \in PlatformNames :
             /\ Carries(j.o["pluginDependencies"], k, "arr")
             /\ \E i \in DOMAIN j.o["pluginDependencies"].o[k].a :
                   Unknown(j.o["pluginDependencies"].o[k].a[i], "platform", PlatformNames)

PayloadHasUnknown ==
    CASE call.op = "Project" -> ProjectHasUnknown(call.payload)
      [] call.op = "Version" -> VersionHasUnknown(call.payload)
      [] call.op = "ProjectsResponse" ->
            /\ Carries(call.payload, "result", "arr")
            /\ \E i \in DOMAIN call.payload.o["result"].a :
                  ProjectHasUnknown(call.payload.o["result"].a[i])
      [] call.op = "VersionsResponse" ->
            /\ Carries(call.payload, "result", "arr")
            /\ \E i \in DOMAIN call.payload.o["result"].a :
                  VersionHasUnknown(call.payload.o["result"].a[i])

DecodedResponse ==
    /\ call.op \in {"Project", "Version", "ProjectsResponse", "VersionsResponse"}
    /\ ret.kind = "decoded"

\* C9: decoding is closed-world and all-or-nothing: a value outside an
\* enum's wire names, anywhere in a Project, Version, ProjectsResponse or
\* VersionsResponse payload, makes the decode of the whole response fail;
\* no variant is substituted and a failed decode carries no value at all.
C9_UnknownEnumValueFailsWhole ==
    DecodedResponse =>
        /\ PayloadHasUnknown => ~ret.result.ok
        /\ ~ret.result.ok => DOMAIN ret.result = {"ok", "err"}

\* a list response whose first project is well-formed and whose second has
\* an unrecognized category: nothing is returned
C9_Witness ==
    /\ call.op = "ProjectsResponse"
    /\ ret.kind = "decoded"
    /\ Carries(call.payload, "pagination", "obj")
    /\ Carries(call.payload.o["pagination"], "count", "int")
    /\ Len(call.payload.o["result"].a) = 2
    /\ ~ProjectHasUnknown(call.payload.o["result"].a[1])
    /\ Unknown(call.payload.o["result"].a[2], "category", CategoryNames)
    /\ ~ret.result.ok
    /\ DOMAIN ret.result = {"ok", "err"}

============================================================================
